---- MODULE Spec2Model ----
(***************************************************************************)
(* Model of deploy.py: a Streamlit page that loads a cached YOLO model,    *)
(* accepts one uploaded video per script run, normalises it with ffmpeg,   *)
(* runs the detector over every frame and offers the annotated video.      *)
(* Each script run ("session") is one execution of main(); the hosting     *)
(* framework runs sessions in separate threads over one file system and    *)
(* one st.cache_resource cache.                                            *)
(***************************************************************************)
EXTENDS Integers, Sequences, FiniteSets, TLC

VARIABLES modelFile, cache, lock, built, disk, ses, dim

vars == <<modelFile, cache, lock, built, disk, ses, dim>>

----------------------------------------------------------------------------
(* Bounds of the model *)

\* longest transcoded video, in frames
MaxFrames == 2
\* size of the pool of names tempfile draws from (an exhausted pool makes
\* NamedTemporaryFile raise)
NumPaths == 3
\* largest small width/height fed to the scale expression
MaxDim == 12

\* the side the scale expression fixes (line 85)
LongSide == 1280

Sessions == {1, 2}
Paths == 1..NumPaths
\* Python's None for a path variable
NoPath == 0
ModelPaths == {"best.pt"}
\* what the file at a model path may be
ModelFiles == {"absent", "invalid", "valid"}
\* texts ffmpeg may leave on stderr
Diagnostics == {"d1", "d2"}
\* widths and heights: small ones and the common video sizes
Dims == (1..MaxDim) \cup {720, 1080, 1280, 1920}

----------------------------------------------------------------------------
(* The file system *)

NoFile == [owner |-> 0, hdr |-> 0, frames |-> <<>>]

Exists(d, p) == p # NoPath /\ d[p].owner # 0

\* os.path.getsize: container bytes plus one unit per frame
GetSize(f) == f.hdr + Len(f.frames)

TempNamesFixed(d) == {1}

\* tempfile.NamedTemporaryFile(delete=False): a name no existing file has
TempNames(d) == {p \in Paths : d[p].owner = 0}

\* the file NamedTemporaryFile creates: empty, created by session s
NewFile(s) == [owner |-> s, hdr |-> 0, frames |-> <<>>]

\* the frames of a video of n frames, in order
Video(n) == [i \in 1..n |-> i]

\* results[0].plot(): frame f annotated with the detections of model m
Render(m, f) == <<"annotated", m, f>>

----------------------------------------------------------------------------
(* Session state *)

NewSession ==
    [pc |-> "start", up |-> FALSE, model |-> 0,
     inp |-> NoPath, down |-> NoPath, outp |-> NoPath,
     rc |-> "none", stderr |-> "", det |-> FALSE, cap |-> "none", wr |-> "none", pos |-> 0,
     msgs |-> {}, shown |-> <<>>]

Msg(kind, text) == <<kind, text>>

Init ==
    /\ modelFile \in ModelFiles
    /\ cache = [p \in ModelPaths |-> 0]
    /\ lock = 0
    /\ built = [p \in ModelPaths |-> 0]
    /\ disk = [p \in Paths |-> NoFile]
    /\ ses = [s \in Sessions |-> NewSession]
    /\ dim = [iw |-> 0, ih |-> 0, ow |-> 0, oh |-> 0, pc |-> "off"]

\* session s moves to pc with the fields of r changed
Set(s, r) == ses' = [ses EXCEPT ![s] = r]


\* the except handlers of main (lines 111-116) show a message; the finally
\* block starts at "rm_in"
Raise(s, r, m) == Set(s, [r EXCEPT !.msgs = @ \cup m, !.pc = "rm_in"])

Unexpected == {Msg("UnexpectedError", "")}

----------------------------------------------------------------------------
(* Model loading: main lines 49-60, load_model lines 8-11 *)

ModelPath == "best.pt"

\* os.path.exists(model_path) fails: fixed message, return
CheckModel(s) ==
    /\ ses[s].pc = "start"
    /\ IF modelFile = "absent"
         THEN Set(s, [ses[s] EXCEPT !.msgs = @ \cup {Msg("ModelNotFound", ModelPath)},
                                    !.pc = "stopped"])
         ELSE Set(s, [ses[s] EXCEPT !.pc = "load"])
    /\ UNCHANGED <<modelFile, cache, lock, built, disk, dim>>

\* st.cache_resource: read the cache without the lock
CacheLookup(s) ==
    /\ ses[s].pc = "load"
    /\ IF cache[ModelPath] # 0
         THEN Set(s, [ses[s] EXCEPT !.model = cache[ModelPath], !.pc = "uploader"])
         ELSE Set(s, [ses[s] EXCEPT !.pc = "lock"])
    /\ UNCHANGED <<modelFile, cache, lock, built, disk, dim>>

HitUnderLockNever(c, p) == FALSE

\* st.cache_resource: the second read, made after the compute lock is taken
HitUnderLock(c, p) == c[p] # 0

\* st.cache_resource: take the compute lock, read the cache again
CacheLock(s) ==
    /\ ses[s].pc = "lock"
    /\ lock = 0
    /\ IF HitUnderLock(cache, ModelPath)
         THEN /\ Set(s, [ses[s] EXCEPT !.model = cache[ModelPath], !.pc = "uploader"])
              /\ UNCHANGED lock
         ELSE /\ Set(s, [ses[s] EXCEPT !.pc = "construct"])
              /\ lock' = s
    /\ UNCHANGED <<modelFile, cache, built, disk, dim>>

ConstructNoReturn(s) ==
    /\ ses[s].pc = "construct"
    /\ lock = s
    /\ built' = [built EXCEPT ![ModelPath] = @ + 1]
    /\ lock' = 0
    /\ IF modelFile = "valid"
         THEN /\ cache' = [cache EXCEPT ![ModelPath] = built'[ModelPath]]
              /\ Set(s, [ses[s] EXCEPT !.model = built'[ModelPath], !.pc = "uploader"])
         ELSE /\ UNCHANGED cache
              /\ Set(s, [ses[s] EXCEPT !.msgs = @ \cup {Msg("ModelLoadError", ModelPath)},
                                       !.pc = "uploader"])
    /\ UNCHANGED <<modelFile, disk, dim>>

\* YOLO(model_path) under the lock: the handle is cached when it is built,
\* nothing is cached when the constructor raises (main shows the error, returns)
Construct(s) ==
    /\ ses[s].pc = "construct"
    /\ lock = s
    /\ built' = [built EXCEPT ![ModelPath] = @ + 1]
    /\ lock' = 0
    /\ IF modelFile = "valid"
         THEN /\ cache' = [cache EXCEPT ![ModelPath] = built'[ModelPath]]
              /\ Set(s, [ses[s] EXCEPT !.model = built'[ModelPath], !.pc = "uploader"])
         ELSE /\ UNCHANGED cache
              /\ Set(s, [ses[s] EXCEPT !.msgs = @ \cup {Msg("ModelLoadError", ModelPath)},
                                       !.pc = "stopped"])
    /\ UNCHANGED <<modelFile, disk, dim>>

----------------------------------------------------------------------------
(* Upload and transcoding: main lines 62-89 *)

\* st.file_uploader: nothing uploaded ends the run, an upload starts the pipeline
Uploader(s) ==
    /\ ses[s].pc = "uploader"
    /\ \/ Set(s, [ses[s] EXCEPT !.pc = "done"])
       \/ Set(s, [ses[s] EXCEPT !.up = TRUE, !.pc = "mk_in"])
    /\ UNCHANGED <<modelFile, cache, lock, built, disk, dim>>

\* lines 69-70: the temporary file of the upload
MkIn(s) ==
    /\ ses[s].pc = "mk_in"
    /\ \/ \E p \in TempNames(disk) :
            /\ disk' = [disk EXCEPT ![p] = NewFile(s)]
            /\ Set(s, [ses[s] EXCEPT !.inp = p, !.pc = "write_in"])
       \/ /\ Raise(s, ses[s], Unexpected)
          /\ UNCHANGED disk
    /\ UNCHANGED <<modelFile, cache, lock, built, dim>>

WriteInSwallow(s) ==
    /\ ses[s].pc = "write_in"
    /\ \/ /\ disk' = [disk EXCEPT ![ses[s].inp].hdr = 1]
          /\ Set(s, [ses[s] EXCEPT !.pc = "mk_down"])
       \/ /\ Set(s, [ses[s] EXCEPT !.msgs = @ \cup Unexpected, !.pc = "mk_down"])
          /\ UNCHANGED disk
    /\ UNCHANGED <<modelFile, cache, lock, built, dim>>

\* lines 71-72: the uploaded bytes are written and the file closed
WriteIn(s) ==
    /\ ses[s].pc = "write_in"
    /\ \/ /\ disk' = [disk EXCEPT ![ses[s].inp].hdr = 1]
          /\ Set(s, [ses[s] EXCEPT !.pc = "mk_down"])
       \/ /\ Raise(s, ses[s], Unexpected)
          /\ UNCHANGED disk
    /\ UNCHANGED <<modelFile, cache, lock, built, dim>>

\* lines 74-77: the temporary file ffmpeg writes to
MkDown(s) ==
    /\ ses[s].pc = "mk_down"
    /\ \/ \E p \in TempNames(disk) :
            /\ disk' = [disk EXCEPT ![p] = NewFile(s)]
            /\ Set(s, [ses[s] EXCEPT !.down = p, !.pc = "ffmpeg"])
       \/ /\ Raise(s, ses[s], Unexpected)
          /\ UNCHANGED disk
    /\ UNCHANGED <<modelFile, cache, lock, built, dim>>

FfmpegUnchecked(s) ==
    /\ ses[s].pc = "ffmpeg"
    /\ \/ \E n \in 0..MaxFrames :
            /\ disk' = [disk EXCEPT ![ses[s].down].hdr = 1,
                                    ![ses[s].down].frames = Video(n)]
            /\ Set(s, [ses[s] EXCEPT !.rc = "ok", !.pc = "mk_out"])
       \/ \E e \in Diagnostics :
            /\ Set(s, [ses[s] EXCEPT !.rc = "fail", !.stderr = e, !.pc = "mk_out"])
            /\ UNCHANGED disk
       \/ /\ Raise(s, [ses[s] EXCEPT !.rc = "error"], Unexpected)
          /\ UNCHANGED disk
    /\ UNCHANGED <<modelFile, cache, lock, built, dim>>

\* line 89: subprocess.run(..., check=True): the transcoded video is written,
\* or ffmpeg exits non-zero (CalledProcessError, lines 111-113), or the
\* process cannot be run at all (any other exception, lines 115-116)
Ffmpeg(s) ==
    /\ ses[s].pc = "ffmpeg"
    /\ \/ \E n \in 0..MaxFrames :
            /\ disk' = [disk EXCEPT ![ses[s].down].hdr = 1,
                                    ![ses[s].down].frames = Video(n)]
            /\ Set(s, [ses[s] EXCEPT !.rc = "ok", !.pc = "mk_out"])
       \/ \E e \in Diagnostics :
            /\ Raise(s, [ses[s] EXCEPT !.rc = "fail", !.stderr = e],
                     {Msg("FFmpegFailed", ""), Msg("FFmpegErrorDetails", e)})
            /\ UNCHANGED disk
       \/ /\ Raise(s, [ses[s] EXCEPT !.rc = "error"], Unexpected)
          /\ UNCHANGED disk
    /\ UNCHANGED <<modelFile, cache, lock, built, dim>>

\* lines 91-94: the temporary file of the annotated video
MkOut(s) ==
    /\ ses[s].pc = "mk_out"
    /\ \/ \E p \in TempNames(disk) :
            /\ disk' = [disk EXCEPT ![p] = NewFile(s)]
            /\ Set(s, [ses[s] EXCEPT !.outp = p, !.pc = "pv_open"])
       \/ /\ Raise(s, ses[s], Unexpected)
          /\ UNCHANGED disk
    /\ UNCHANGED <<modelFile, cache, lock, built, dim>>

----------------------------------------------------------------------------
(* process_video: lines 13-43, called at line 96 *)

PvOpenFallThrough(s) ==
    /\ ses[s].pc = "pv_open"
    /\ \/ Set(s, [ses[s] EXCEPT !.det = TRUE, !.cap = "open", !.pc = "pv_writer"])
       \/ Set(s, [ses[s] EXCEPT !.det = TRUE, !.cap = "failed",
                                !.msgs = @ \cup {Msg("VideoOpenError", "")},
                                !.pc = "pv_writer"])
    /\ UNCHANGED <<modelFile, cache, lock, built, disk, dim>>

\* lines 17-20: cv2.VideoCapture(input_path); an unopened capture shows an
\* error and returns to main
PvOpen(s) ==
    /\ ses[s].pc = "pv_open"
    /\ \/ Set(s, [ses[s] EXCEPT !.det = TRUE, !.cap = "open", !.pc = "pv_writer"])
       \/ Set(s, [ses[s] EXCEPT !.det = TRUE, !.cap = "failed",
                                !.msgs = @ \cup {Msg("VideoOpenError", "")},
                                !.pc = "check"])
    /\ UNCHANGED <<modelFile, cache, lock, built, disk, dim>>

\* lines 22-31: cv2.VideoWriter(output_path, ...): an opened writer truncates
\* the file and writes the container's leading bytes; an unopened one shows
\* an error, releases the capture and returns to main
PvWriter(s) ==
    /\ ses[s].pc = "pv_writer"
    /\ \/ /\ disk' = [disk EXCEPT ![ses[s].outp].hdr = 1,
                                    ![ses[s].outp].frames = <<>>]
          /\ Set(s, [ses[s] EXCEPT !.wr = "open", !.pc = "pv_loop"])
       \/ /\ Set(s, [ses[s] EXCEPT !.wr = "failed", !.cap = "released",
                                   !.msgs = @ \cup {Msg("VideoWriteError", "")},
                                   !.pc = "check"])
          /\ UNCHANGED disk
    /\ UNCHANGED <<modelFile, cache, lock, built, dim>>

WriteFrameFirst(out, m, f) == <<Render(m, f)>> \o out

\* out.write(rendered_frame), line 40
WriteFrame(out, m, f) == Append(out, Render(m, f))

\* lines 33-40, one iteration: read the next frame; stop when there is none;
\* otherwise run the model, which may raise (caught at lines 115-116), and
\* write the annotated frame
PvLoop(s) ==
    /\ ses[s].pc = "pv_loop"
    /\ LET src == disk[ses[s].down].frames
           ret == ses[s].pos < Len(src)
       IN IF ~ret
            THEN /\ Set(s, [ses[s] EXCEPT !.pc = "pv_release"])
                 /\ UNCHANGED disk
            ELSE LET frame == src[ses[s].pos + 1]
                     r == [ses[s] EXCEPT !.pos = @ + 1]
                 IN \/ /\ disk' = [disk EXCEPT ![ses[s].outp].frames =
                                       WriteFrame(@, ses[s].model, frame)]
                       /\ Set(s, r)
                    \/ /\ Raise(s, r, Unexpected)
                       /\ UNCHANGED disk
    /\ UNCHANGED <<modelFile, cache, lock, built, dim>>

\* lines 42-43
PvRelease(s) ==
    /\ ses[s].pc = "pv_release"
    /\ Set(s, [ses[s] EXCEPT !.cap = "released", !.wr = "released", !.pc = "check"])
    /\ UNCHANGED <<modelFile, cache, lock, built, disk, dim>>

----------------------------------------------------------------------------
(* Presentation and cleanup: main lines 98-125 *)

HasOutputAnySize(d, p) == Exists(d, p)

\* line 98: os.path.exists(output_video_path) and os.path.getsize(...) > 0
HasOutput(d, p) == Exists(d, p) /\ GetSize(d[p]) > 0

\* video_file.read(): the whole content of the file
ReadAll(f) == <<f.hdr, f.frames>>

\* lines 98-109: the output is read and shown (st.video, st.download_button),
\* or reading it raises, or the error of line 109 is shown
Check(s) ==
    /\ ses[s].pc = "check"
    /\ IF HasOutput(disk, ses[s].outp)
         THEN \/ Set(s, [ses[s] EXCEPT !.shown = <<ReadAll(disk[ses[s].outp])>>,
                                       !.pc = "rm_in"])
              \/ Raise(s, ses[s], Unexpected)
         ELSE Raise(s, ses[s], {Msg("NoOutput", "")})
    /\ UNCHANGED <<modelFile, cache, lock, built, disk, dim>>

\* the guard and the os.remove of lines 120-125
Remove(d, p) == IF Exists(d, p) THEN [d EXCEPT ![p] = NoFile] ELSE d

\* lines 120-121
RmIn(s) ==
    /\ ses[s].pc = "rm_in"
    /\ disk' = Remove(disk, ses[s].inp)
    /\ Set(s, [ses[s] EXCEPT !.pc = "rm_down"])
    /\ UNCHANGED <<modelFile, cache, lock, built, dim>>

\* lines 122-123
RmDown(s) ==
    /\ ses[s].pc = "rm_down"
    /\ disk' = Remove(disk, ses[s].down)
    /\ Set(s, [ses[s] EXCEPT !.pc = "rm_out"])
    /\ UNCHANGED <<modelFile, cache, lock, built, dim>>

RmOutForgotten(s) ==
    /\ ses[s].pc = "rm_out"
    /\ Set(s, [ses[s] EXCEPT !.inp = NoPath, !.down = NoPath, !.outp = NoPath,
                             !.pc = "done"])
    /\ UNCHANGED <<modelFile, cache, lock, built, disk, dim>>

\* lines 124-125, and main returns: its local path variables are gone
RmOut(s) ==
    /\ ses[s].pc = "rm_out"
    /\ disk' = Remove(disk, ses[s].outp)
    /\ Set(s, [ses[s] EXCEPT !.inp = NoPath, !.down = NoPath, !.outp = NoPath,
                             !.pc = "done"])
    /\ UNCHANGED <<modelFile, cache, lock, built, dim>>

Next ==
    \E s \in Sessions :
        \/ CheckModel(s) \/ CacheLookup(s) \/ CacheLock(s) \/ Construct(s)
        \/ Uploader(s) \/ MkIn(s) \/ WriteIn(s) \/ MkDown(s) \/ Ffmpeg(s)
        \/ MkOut(s) \/ PvOpen(s) \/ PvWriter(s) \/ PvLoop(s) \/ PvRelease(s)
        \/ Check(s) \/ RmIn(s) \/ RmDown(s) \/ RmOut(s)

Spec == Init /\ [][Next]_vars

----------------------------------------------------------------------------
(* The scale filter of the ffmpeg command: line 85                         *)
(*   scale='if(gt(a,1),1280,-2)':'if(gt(a,1),-2,1280)'                      *)
(* a is iw/ih; a side given as -n keeps the aspect ratio and is made a      *)
(* multiple of n, rounding to nearest as av_rescale does.                   *)

ScaleExprW(iw, ih) == IF iw > ih THEN LongSide ELSE -2

ScaleExprHAspectOnly(iw, ih) == IF iw > ih THEN -1 ELSE LongSide

ScaleExprH(iw, ih) == IF iw > ih THEN -2 ELSE LongSide

\* av_rescale(a, b, c): a*b/c rounded to nearest, halves away from zero
AvRescale(a, b, c) == (a * b + c \div 2) \div c

Factor(e) == IF e < -1 THEN -e ELSE 1

OutW(iw, ih) ==
    LET w == ScaleExprW(iw, ih)
        h == ScaleExprH(iw, ih)
    IN IF w < 0 /\ h < 0 THEN iw
       ELSE IF w < 0 THEN AvRescale(h, iw, ih * Factor(w)) * Factor(w)
       ELSE w

OutH(iw, ih) ==
    LET w == ScaleExprW(iw, ih)
        h == ScaleExprH(iw, ih)
    IN IF w < 0 /\ h < 0 THEN ih
       ELSE IF h < 0 THEN AvRescale(OutW(iw, ih), ih, iw * Factor(h)) * Factor(h)
       ELSE h

InitScale ==
    /\ modelFile = "valid"
    /\ cache = [p \in ModelPaths |-> 0]
    /\ lock = 0
    /\ built = [p \in ModelPaths |-> 0]
    /\ disk = [p \in Paths |-> NoFile]
    /\ ses = [s \in Sessions |-> NewSession]
    /\ dim \in [iw : Dims, ih : Dims, ow : {0}, oh : {0}, pc : {"in"}]

\* ffmpeg applies the filter to an input of iw x ih
ScaleVideo ==
    /\ dim.pc = "in"
    /\ dim' = [dim EXCEPT !.ow = OutW(dim.iw, dim.ih),
                          !.oh = OutH(dim.iw, dim.ih),
                          !.pc = "out"]
    /\ UNCHANGED <<modelFile, cache, lock, built, disk, ses>>

SpecScale == InitScale /\ [][ScaleVideo]_vars

----------------------------------------------------------------------------
(* The stage of an upload, read off the session: spec section 4.4 *)

Cleanup == {"rm_in", "rm_down", "rm_out"}

State(s) ==
    LET r == ses[s]
    IN IF r.shown # <<>> THEN "Ready"
       ELSE IF r.up /\ r.msgs # {} THEN "Failed"
       ELSE IF r.pc = "mk_down" THEN "Uploaded"
       ELSE IF r.pc = "ffmpeg" THEN "Transcoding"
       ELSE IF r.pc \in {"mk_out", "pv_open", "pv_writer", "pv_loop",
                         "pv_release", "check"} THEN "Detecting"
       ELSE "Idle"

Rank(st) ==
    CASE st = "Idle" -> 0
      [] st = "Uploaded" -> 1
      [] st = "Transcoding" -> 2
      [] st = "Detecting" -> 3
      [] st = "Ready" -> 4
      [] OTHER -> 5

\* the files on disk that session s created
FilesOf(s) == {p \in Paths : disk[p].owner = s}

Ended(s) == ses[s].pc = "done"

----------------------------------------------------------------------------
(* Claims *)

C2_ForwardOnly ==
    [][\A s \in Sessions :
          LET a == State(s)
              b == State(s)'
          IN \/ a = b
             \/ /\ a \notin {"Ready", "Failed"}
                /\ b = "Failed" \/ Rank(b) = Rank(a) + 1]_vars

\* one session has ended in Ready and the other in Failed
C2_Witness ==
    \E s, t \in Sessions :
        /\ Ended(s) /\ State(s) = "Ready"
        /\ Ended(t) /\ State(t) = "Failed"

\* C3: once an error has been shown for an upload no later stage runs; when
\* ffmpeg exits non-zero the detection runner is not invoked, no output
\* temporary file is created, nothing is exposed, and the text ffmpeg wrote
\* to stderr is in the error shown.
C3_FailureAborts ==
    \A s \in Sessions :
        /\ State(s) = "Failed" =>
              /\ ses[s].pc \in Cleanup \cup {"check", "done"}
              /\ ses[s].shown = <<>>
        /\ ses[s].rc = "fail" =>
              /\ ses[s].pc \in Cleanup \cup {"done"}
              /\ ~ses[s].det
              /\ ses[s].outp = NoPath
              /\ Cardinality(FilesOf(s)) <= 2
              /\ ses[s].shown = <<>>
              /\ Msg("FFmpegErrorDetails", ses[s].stderr) \in ses[s].msgs
              /\ \A e \in Diagnostics \ {ses[s].stderr} :
                    Msg("FFmpegErrorDetails", e) \notin ses[s].msgs

\* ffmpeg exited non-zero with diagnostic "d2" and the session has ended
C3_Witness ==
    \E s \in Sessions :
        /\ Ended(s) /\ ses[s].rc = "fail" /\ ses[s].stderr = "d2"
        /\ State(s) = "Failed"

\* the output holds the annotated frames 1..n of the input, in order
Annotated(s, n) ==
    LET src == disk[ses[s].down].frames
        out == disk[ses[s].outp].frames
    IN /\ Len(out) = n
       /\ n <= Len(src)
       /\ \A i \in 1..n : out[i] = Render(ses[s].model, src[i])

\* C4: while process_video runs the output holds exactly the annotated
\* frames read so far, in order; when it returns after opening both ends with
\* no inference raising, the output has one annotated frame per input frame,
\* the i-th being the rendering of the i-th input frame.
C4_FramePerFrame ==
    \A s \in Sessions :
        /\ ses[s].pc \in {"pv_loop", "pv_release"} => Annotated(s, ses[s].pos)
        /\ (ses[s].pc = "check" /\ ses[s].wr = "released") =>
              Annotated(s, Len(disk[ses[s].down].frames))

\* process_video has returned from a video of MaxFrames frames (at least two)
C4_Witness ==
    \E s \in Sessions :
        /\ ses[s].pc = "check" /\ ses[s].wr = "released"
        /\ Len(disk[ses[s].down].frames) = MaxFrames
        /\ Len(disk[ses[s].outp].frames) >= 2

LivePaths(s) ==
    LET r == ses[s]
    IN  ((IF r.pc \notin {"rm_down", "rm_out", "done"} THEN {r.inp} ELSE {})
         \cup (IF r.pc \notin {"rm_out", "done"} THEN {r.down} ELSE {})
         \cup {r.outp}) \ {NoPath}

NumLive(s) ==
    LET r == ses[s]
    IN  (IF r.inp # NoPath /\ r.pc \notin {"rm_down", "rm_out", "done"} THEN 1 ELSE 0)
        + (IF r.down # NoPath /\ r.pc \notin {"rm_out", "done"} THEN 1 ELSE 0)
        + (IF r.outp # NoPath THEN 1 ELSE 0)

\* C6: the temporary files a session holds are files it created, distinct
\* from each other and from every file another session holds; a step of one
\* session creates, writes or deletes only files of its own, and changes
\* nothing of any other session, whether the step fails or not.
C6_NoSharing ==
    /\ [](\A s \in Sessions :
            /\ \A p \in LivePaths(s) : disk[p].owner = s
            /\ Cardinality(LivePaths(s)) = NumLive(s)
            /\ \A t \in Sessions \ {s} : LivePaths(s) \cap LivePaths(t) = {})
    /\ [][\A s \in Sessions :
            ses'[s] # ses[s] =>
               /\ \A t \in Sessions \ {s} : ses'[t] = ses[t]
               /\ \A p \in Paths :
                     disk'[p] # disk[p] =>
                        /\ disk[p].owner \in {0, s}
                        /\ disk'[p].owner \in {0, s}
                        /\ disk[p].owner = s => p \in LivePaths(s)]_vars

\* one session has failed and is cleaning up, its upload already removed;
\* the other has meanwhile exposed its video and still holds its three
\* files, one of them under the name the failed session's upload had
C6_Witness ==
    \E s, t \in Sessions :
        /\ State(s) = "Failed" /\ ses[s].pc = "rm_down" /\ ses[s].inp # NoPath
        /\ State(t) = "Ready" /\ ses[t].pc = "rm_in"
        /\ ses[s].inp \in LivePaths(t)

\* C7: a video is exposed only after process_video returned with both ends
\* released and the output file non-empty; what is exposed is the whole
\* content of the output file, which is still on disk until cleanup removes
\* it; a session shown the no-output error exposes nothing and its output
\* file is missing or empty.
C7_ExposeOnlyOutput ==
    \A s \in Sessions :
        LET r == ses[s]
        IN /\ r.shown # <<>> =>
                /\ r.det /\ r.cap = "released" /\ r.wr = "released"
                /\ r.pc \in Cleanup \cup {"done"}
                /\ r.shown[1][1] + Len(r.shown[1][2]) > 0
                /\ r.msgs = {}
                /\ r.pc \in Cleanup =>
                      /\ Exists(disk, r.outp)
                      /\ r.shown = <<ReadAll(disk[r.outp])>>
           /\ Msg("NoOutput", "") \in r.msgs =>
                /\ r.shown = <<>>
                /\ r.pc \in Cleanup =>
                      (Exists(disk, r.outp) => GetSize(disk[r.outp]) = 0)

\* a video with frames is exposed and its file not yet removed
C7_Witness ==
    \E s \in Sessions :
        /\ ses[s].shown # <<>> /\ ses[s].pc = "rm_out"
        /\ Len(ses[s].shown[1][2]) = MaxFrames

\* C8: a capture that does not open shows the open error, a writer that
\* does not open shows the writer error and releases the capture; in both
\* cases no frame is read or written, nothing is exposed and the session
\* ends in Failed.
C8_OpenFailuresFatal ==
    \A s \in Sessions :
        LET r == ses[s]
            bad == r.cap = "failed" \/ r.wr = "failed"
        IN /\ r.cap = "failed" =>
                /\ Msg("VideoOpenError", "") \in r.msgs
                /\ r.wr = "none"
           /\ r.wr = "failed" =>
                /\ Msg("VideoWriteError", "") \in r.msgs
                /\ r.cap = "released"
           /\ bad =>
                /\ r.pos = 0
                /\ \A p \in FilesOf(s) : disk[p].frames = <<>> \/ p = r.down
                /\ r.shown = <<>>
                /\ r.pc \in Cleanup \cup {"check", "done"}
                /\ State(s) = "Failed"

\* one session ended after its capture failed to open, the other after its
\* writer failed to open
C8_Witness ==
    \E s, t \in Sessions :
        /\ Ended(s) /\ ses[s].cap = "failed"
        /\ Ended(t) /\ ses[t].wr = "failed"

ModelErrors == {Msg("ModelNotFound", ModelPath), Msg("ModelLoadError", ModelPath)}

\* C9: with best.pt absent or unloadable a session shows an error and
\* returns before the upload widget: it accepts no upload, creates no
\* temporary file and runs neither ffmpeg nor process_video.
C9_NoModelNoUpload ==
    \A s \in Sessions :
        LET r == ses[s]
        IN /\ modelFile # "valid" =>
                /\ r.pc \in {"start", "load", "lock", "construct", "stopped"}
                /\ r.pc = "stopped" => r.msgs \cap ModelErrors # {}
           /\ modelFile = "absent" => built[ModelPath] = 0
           /\ r.msgs \cap ModelErrors # {} =>
                /\ r.pc = "stopped"
                /\ ~r.up /\ r.rc = "none" /\ ~r.det
                /\ r.inp = NoPath /\ r.down = NoPath /\ r.outp = NoPath
                /\ FilesOf(s) = {}
                /\ r.shown = <<>>

\* one session stopped on the missing-file check or on a load that raised,
\* for every session
C9_Witness ==
    /\ modelFile = "invalid"
    /\ \A s \in Sessions :
          ses[s].pc = "stopped" /\ Msg("ModelLoadError", ModelPath) \in ses[s].msgs

Abs(x) == IF x < 0 THEN -x ELSE x

Largest(a, b) == IF a > b THEN a ELSE b

====
